---------------------------- MODULE Spec2Model ----------------------------
(***************************************************************************)
(* Model of the Feishu document comment monitor (src/unnamed/part_000).    *)
(*                                                                         *)
(* Spec      the monitor registry: the process-wide maps activeTimers and  *)
(*           commentsCache, the interval timers of the runtime, and the    *)
(*           in-flight invocations of invokeGetCommentsTools, one step per *)
(*           stretch of code between two awaits.                           *)
(* SpecDiff  the pure function detectNewComments applied to bounded        *)
(*           inputs.                                                       *)
(* SpecStream     one agent stream through the translator and its sink.    *)
(* SpecShutdown   the signal handlers beside the monitor.                  *)
(* SpecJob        one job over a remote comment list that only grows.      *)
(***************************************************************************)
EXTENDS Integers, Sequences, FiniteSets, Bags, TLC

\* ------------------------------------------------------------------ bounds

\* Concurrent in-flight invocations of invokeGetCommentsTools the model holds.
MaxTicks == 2

\* Interval timers of one document the runtime holds at a time.
MaxTimers == 2

\* detectNewComments inputs: comments per snapshot, replies per comment, ids.
MaxComments == 2
MaxReplies == 2
MaxReplyId == 2

\* Chunks an agent stream yields.
MaxChunks == 2

\* Dispatches of one reply that are counted; the count stays at the bound.
MaxDispatches == 2

\* ------------------------------------------------------------- data model

\* A reply of the comment list; reply_id 0 stands for a missing (falsy) id.
Reply(id, text) == [reply_id |-> id, text |-> text]

\* A comment: its own fields and its reply_list; defined = FALSE stands for a
\* comment whose reply_list (or reply_list.replies) is missing.
Comment(cid, replies) ==
  [comment_id |-> cid, reply_list |-> [defined |-> TRUE, replies |-> replies]]

CommentNoList(cid) ==
  [comment_id |-> cid, reply_list |-> [defined |-> FALSE, replies |-> <<>>]]

\* Sequences over S of length 0..n.
SeqUpTo(S, n) == UNION {[1..k -> S] : k \in 0..n}

\* Truthiness of `comment.reply_list && comment.reply_list.replies`.
HasReplies(comment) == comment.reply_list.defined

\* ------------------------------------------------------- detectNewComments

RECURSIVE AddReplyIds(_, _)
\* replies.forEach(reply => { if (reply.reply_id) cachedCommentIds.add(...) })
AddReplyIds(replies, ids) ==
  IF replies = <<>> THEN ids
  ELSE AddReplyIds(Tail(replies),
                   IF Head(replies).reply_id # 0
                     THEN ids \cup {Head(replies).reply_id}
                     ELSE ids)

\* The mutant of CachedCommentIds that reads the first cached comment only.
CachedCommentIdsFirstOnly(cachedComments, ids) ==
  IF cachedComments = <<>> THEN ids
  ELSE IF HasReplies(Head(cachedComments))
         THEN AddReplyIds(Head(cachedComments).reply_list.replies, ids)
         ELSE ids

RECURSIVE CachedCommentIds(_, _)
\* cachedComments.forEach(comment => ...) building the Set of cached reply ids.
CachedCommentIds(cachedComments, ids) ==
  IF cachedComments = <<>> THEN ids
  ELSE CachedCommentIds(Tail(cachedComments),
                        IF HasReplies(Head(cachedComments))
                          THEN AddReplyIds(Head(cachedComments).reply_list.replies, ids)
                          ELSE ids)

\* The object pushed for a new reply: {...comment, reply_list: {..., replies: [reply]}}.
NewCommentEntry(comment, reply) ==
  [comment EXCEPT !.reply_list = [comment.reply_list EXCEPT !.replies = <<reply>>]]

\* The mutant of IsNewReply that reports replies without an id too.
IsNewReplyNoIdCheck(reply, cachedIds) == reply.reply_id \notin cachedIds

\* if (reply.reply_id && !cachedCommentIds.has(reply.reply_id))
IsNewReply(reply, cachedIds) ==
  reply.reply_id # 0 /\ reply.reply_id \notin cachedIds

RECURSIVE PushNewReplies(_, _, _, _)
\* comment.reply_list.replies.forEach(reply => { if (...) newComments.push(...) })
PushNewReplies(comment, replies, cachedIds, newComments) ==
  IF replies = <<>> THEN newComments
  ELSE PushNewReplies(comment, Tail(replies), cachedIds,
                      IF IsNewReply(Head(replies), cachedIds)
                        THEN Append(newComments, NewCommentEntry(comment, Head(replies)))
                        ELSE newComments)

RECURSIVE WalkCurrentComments(_, _, _)
\* currentComments.forEach(comment => ...) collecting the new replies in order.
WalkCurrentComments(currentComments, cachedIds, newComments) ==
  IF currentComments = <<>> THEN newComments
  ELSE WalkCurrentComments(Tail(currentComments), cachedIds,
         IF HasReplies(Head(currentComments))
           THEN PushNewReplies(Head(currentComments),
                               Head(currentComments).reply_list.replies,
                               cachedIds, newComments)
           ELSE newComments)

\* The mutant of IsFirstFetch that never takes the first-fetch branch.
IsFirstFetchNever(cachedComments) == FALSE

\* if (cachedComments.length === 0)
IsFirstFetch(cachedComments) == Len(cachedComments) = 0

detectNewComments(cachedComments, currentComments) ==
  IF IsFirstFetch(cachedComments) THEN <<>>
  ELSE WalkCurrentComments(currentComments,
                           CachedCommentIds(cachedComments, {}), <<>>)

\* ------------------------------------------------------ the monitor: state

\* The document ids the monitor is asked to watch.
Docs == {"d1", "d2"}

\* Request URLs: the path's document type and id. Two types share the id d1.
Urls ==
  { [type |-> "docx", id |-> "d1"], [type |-> "wiki", id |-> "d1"],
    [type |-> "docx", id |-> "d2"], [type |-> "sheets", id |-> "d1"] }

\* pathname.match(/\/(docx|docs|wiki)\/([a-zA-Z0-9]+)/): the parsed document
\* info, ok = FALSE for the null result.
parseFeishuDocId(url) ==
  IF url.type \in {"docx", "docs", "wiki"}
    THEN [ok |-> TRUE, type |-> url.type, id |-> url.id, fullId |-> url.id]
    ELSE [ok |-> FALSE, type |-> url.type, id |-> "-", fullId |-> "-"]

\* Identities of the interval timers of one document (0: no timer).
TimerIds == 1..MaxTimers

\* The comment lists the remote service returns in the monitor's runs.
SnapE == <<>>
SnapA == <<Comment(1, <<Reply(1, "a")>>)>>
SnapC == <<Comment(1, <<Reply(1, "a"), Reply(2, "a")>>), Comment(2, <<Reply(3, "a")>>)>>
FetchSnapshots == {SnapE, SnapA, SnapC}

\* The ways a fetch fails: getTools throws, no drive_comment_list tool, invoke
\* throws, JSON.parse (or reading the parsed value) throws.
FetchFailures == {"getToolsThrows", "noTool", "invokeThrows", "unparsable"}

\* A commentsCache entry: present = FALSE stands for a key the Map does not hold.
Absent == [present |-> FALSE, items |-> <<>>]
Stored(items) == [present |-> TRUE, items |-> items]

\* An invocation of invokeGetCommentsTools(d) that starts its fetch; current
\* tells whether the timer that fired it is the one registered for d.
NewTick(d, current) ==
  [pc |-> "fetch", doc |-> d, current |-> current, fetched |-> <<>>,
   newComments |-> <<>>, index |-> 0]

\* The poll event of a step that ends no fetch.
NoPoll == [doc |-> "-", val |-> "none", job |-> "none", reported |-> <<>>]

\* The HTTP response of a registry request: res.redirect, res.json or
\* res.status(404).json; count is stoppedCount, 0 where the body has none.
Response(route, status, doc, count) ==
  [route |-> route, status |-> status, doc |-> doc, count |-> count]

\* The response of a step that serves no registry request.
NoRes == Response("none", 0, "-", 0)

\* What a step in which processNewCommentWithAgent returns tells: the document,
\* the place of the reply in the tick's new replies, and how the agent ended.
AgentEvent(doc, index, outcome) == [doc |-> doc, index |-> index, outcome |-> outcome]

\* The agent event of a step in which no agent invocation returns.
NoAgentEvent == AgentEvent("-", 0, "none")

VARIABLES
  mcpClient,      \* TRUE when the global mcpClient is not null
  reactAgent,     \* TRUE when the global reactAgent is not null
  initPending,    \* initializeMCPClient awaits mcpClient.getTools()
  activeTimers,   \* the Map activeTimers: doc -> timer id, 0 for no entry
  liveTimers,     \* the runtime's intervals that were not cleared: <<doc, id>>
  commentsCache,  \* the Map commentsCache: doc -> cache entry
  ticks,          \* the bag of the in-flight invocations of
                  \* invokeGetCommentsTools; current records that the timer
                  \* that fired the invocation is still the one registered in
                  \* activeTimers
  job,            \* doc -> "none" without a registered job, else how far the
                  \* registered job is: "started" (by a first start),
                  \* "restarted" (by a start that replaced a job), "polled"
                  \* (one of its invocations has stored a fetch)
  pollEvent,      \* what the last step logged about a fetch: it failed, or it
                  \* succeeded and reported these new replies; NoPoll when the
                  \* last step ended no fetch
  res,            \* the HTTP response the last step sent to a registry request;
                  \* NoRes when the last step served none
  agentEvent      \* the agent invocation that returned in the last step;
                  \* NoAgentEvent when none did

vars ==
  <<mcpClient, reactAgent, initPending, activeTimers, liveTimers,
    commentsCache, ticks, job, pollEvent, res, agentEvent>>

\* The inputs and the result of one application of detectNewComments.
VARIABLES cachedIn, currentIn, diffOut, diffDone

diffVars == <<cachedIn, currentIn, diffOut, diffDone>>

\* One run of an agent stream through a translator and its sink.
VARIABLES
  sink,           \* who consumes the stream: "sse" is app.post('/api/agent/execute'),
                  \* "console" is processNewCommentWithAgent, "example" is runAgent
  hasMessage,     \* req.body.message is truthy
  chunks,         \* the chunks the agent stream yields, in order
  streamFails,    \* "no", or where the stream rejects: "open" in
                  \* reactAgent.stream(), "after" in the iteration after the chunks
  chunkIndex,     \* the number of chunks the for await loop has taken
  written,        \* the frames written to res (the events logged, for the
                  \* console sinks), in order
  endCalls,       \* the number of res.end() calls
  sinkPc,         \* "request", "opening" (await of stream()), "reading" (for
                  \* await), "closed" (res.end() called), "returned"
  sinkStatus      \* the HTTP status of the response ("200", "400", "503"), the
                  \* return value of the console sinks ("final", "null"), "none"

streamVars ==
  <<sink, hasMessage, chunks, streamFails, chunkIndex, written, endCalls, sinkPc,
    sinkStatus>>

\* The shutdown handlers of the process.
VARIABLES
  authProvider,   \* TRUE when the global authProvider is not null
  shutdownPc,     \* signal -> "idle", "cleanup" (await of authProvider.cleanup()),
                  \* "close" (await of mcpClient.close())
  cleanupTried,   \* signal -> the outcome of its handler's authProvider.cleanup():
                  \* "none" (not reached), "skipped" (no provider), "ok", "failed"
  closeTried,     \* signal -> the outcome of its handler's mcpClient.close()
  exitedBy        \* the signal whose handler called process.exit(0), or "none"

shutdownVars == <<authProvider, shutdownPc, cleanupTried, closeTried, exitedBy>>

\* The remote comment list of one monitored document and the agent
\* invocations made for its replies.
VARIABLES
  upstream,       \* the comment list the remote service holds for the document
  dispatched      \* reply_id -> the number of calls of processNewCommentWithAgent
                  \* made for that reply, up to MaxDispatches

feedVars == <<upstream, dispatched>>

Signals == {"SIGINT", "SIGTERM"}

allVars == <<vars, diffVars, streamVars, shutdownVars, feedVars>>

\* The shutdown variables of a process that has received no signal.
ShutdownIdle ==
  /\ shutdownPc = [sig \in Signals |-> "idle"]
  /\ cleanupTried = [sig \in Signals |-> "none"]
  /\ closeTried = [sig \in Signals |-> "none"]
  /\ exitedBy = "none"

\* The reply ids the remote service ever returns.
UpstreamReplyIds == CachedCommentIds(SnapC, {})

\* The remote list is not followed.
FeedIdle ==
  /\ upstream = SnapE
  /\ dispatched = [id \in UpstreamReplyIds |-> 0]

\* The stream variables while the monitor runs.
StreamIdle ==
  /\ sink = "sse"
  /\ hasMessage = FALSE
  /\ chunks = <<>>
  /\ streamFails = "no"
  /\ chunkIndex = 0
  /\ written = <<>>
  /\ endCalls = 0
  /\ sinkPc = "request"
  /\ sinkStatus = "none"

\* The detectNewComments variables while the monitor runs.
DiffIdle ==
  /\ cachedIn = <<>>
  /\ currentIn = <<>>
  /\ diffOut = <<>>
  /\ diffDone = FALSE

Init ==
  /\ mcpClient \in BOOLEAN
  /\ reactAgent = FALSE
  /\ initPending = mcpClient
  /\ activeTimers = [d \in Docs |-> 0]
  /\ liveTimers = {}
  /\ commentsCache = [d \in Docs |-> Absent]
  /\ ticks = EmptyBag
  /\ job = [d \in Docs |-> "none"]
  /\ pollEvent = NoPoll
  /\ res = NoRes
  /\ agentEvent = NoAgentEvent
  /\ DiffIdle
  /\ StreamIdle
  /\ authProvider = mcpClient
  /\ ShutdownIdle
  /\ FeedIdle

\* ---------------------------------------------------- initializeMCPClient

\* The await of mcpClient.getTools() in initializeMCPClient ends: it threw
\* (the catch nulls both globals), or it returned and the agent was created
\* (model && tools.length > 0) or not.
InitializeMCPClient ==
  /\ initPending
  /\ initPending' = FALSE
  /\ \E outcome \in {"failed", "noAgent", "agent"} :
       /\ mcpClient' = (outcome # "failed")
       /\ reactAgent' = (outcome = "agent")
  /\ pollEvent' = NoPoll
  /\ res' = NoRes
  /\ agentEvent' = NoAgentEvent
  /\ UNCHANGED <<activeTimers, liveTimers, commentsCache, ticks, job>>
  /\ UNCHANGED <<diffVars, streamVars, shutdownVars, feedVars>>

\* ------------------------------------------------------------ the registry

\* A request that changes neither map nor any timer and is answered by
\* response.
Unchanged(response) ==
  /\ pollEvent' = NoPoll
  /\ res' = response
  /\ agentEvent' = NoAgentEvent
  /\ UNCHANGED <<mcpClient, reactAgent, initPending, activeTimers, liveTimers,
                 commentsCache, ticks, job>>
  /\ UNCHANGED <<diffVars, streamVars, shutdownVars, feedVars>>

\* The mutant of Orphaned in which clearing the timer of a document also ends
\* its invocations in flight.
OrphanedDropped(ds) ==
  [o \in {r \in BagToSet(ticks) : r.doc \notin ds} |-> ticks[o]]

\* The invocations once the registered timer of the documents in ds is
\* cleared or replaced: those it fired are no longer the registered job's.
Orphaned(ds) ==
  LET Orphan(r) == IF r.doc \in ds THEN [r EXCEPT !.current = FALSE] ELSE r
      Copies(o) ==
        IF o.doc \in ds
          THEN CopiesIn(o, ticks) + CopiesIn([o EXCEPT !.current = TRUE], ticks)
          ELSE CopiesIn(o, ticks)
  IN [o \in {Orphan(r) : r \in BagToSet(ticks)} |-> Copies(o)]

\* The ids of the timers of document d in the set live.
LiveTimerIds(live, d) == {tm[2] : tm \in {x \in live : x[1] = d}}

\* The identity of the timer a new setInterval makes.
FreshTimerId(live, d) == CHOOSE id \in TimerIds : id \notin LiveTimerIds(live, d)

\* The mutant of ClearedTimers that forgets clearInterval on a restart.
ClearedTimersNoClear(d) == liveTimers

\* if (activeTimers.has(id)) clearInterval(activeTimers.get(id))
ClearedTimers(d) ==
  IF activeTimers[d] # 0 THEN liveTimers \ {<<d, activeTimers[d]>>} ELSE liveTimers

\* The mutant of CacheAfterRestart in which a restart clears commentsCache.
CacheAfterRestartAll(d) ==
  IF activeTimers[d] # 0 THEN [e \in Docs |-> Absent] ELSE commentsCache

\* if (activeTimers.has(id)) { ...; commentsCache.delete(id) }
CacheAfterRestart(d) ==
  IF activeTimers[d] # 0 THEN [commentsCache EXCEPT ![d] = Absent] ELSE commentsCache

\* app.get('/') with a url that parses to document d: the restart path, then
\* setInterval and activeTimers.set.
StartMonitor(d) ==
  /\ LiveTimerIds(ClearedTimers(d), d) # TimerIds
  /\ LET id == FreshTimerId(ClearedTimers(d), d) IN
       /\ liveTimers' = ClearedTimers(d) \cup {<<d, id>>}
       /\ activeTimers' = [activeTimers EXCEPT ![d] = id]
  /\ commentsCache' = CacheAfterRestart(d)
  /\ job' = [job EXCEPT ![d] = IF activeTimers[d] # 0 THEN "restarted" ELSE "started"]
  /\ ticks' = Orphaned({d})
  /\ pollEvent' = NoPoll
  /\ res' = Response("start", 302, d, 0)
  /\ agentEvent' = NoAgentEvent
  /\ UNCHANGED <<mcpClient, reactAgent, initPending>>
  /\ UNCHANGED <<diffVars, streamVars, shutdownVars, feedVars>>

\* app.get('/'): the url query parameter, parsed; a url that does not parse
\* changes nothing.
Start ==
  \E url \in Urls :
    LET docInfo == parseFeishuDocId(url) IN
      IF docInfo.ok THEN StartMonitor(docInfo.fullId)
                    ELSE Unchanged(Response("start", 302, "-", 0))

\* The mutant of StopStatus that answers every stop with 200.
StopStatusAlwaysOk(d) == 200

\* res.json(...) when activeTimers.has(docId), else res.status(404).json(...).
StopStatus(d) == IF activeTimers[d] # 0 THEN 200 ELSE 404

\* app.delete('/api/monitors/:docId') for a document with an entry.
StopMonitor(d) ==
  /\ liveTimers' = liveTimers \ {<<d, activeTimers[d]>>}
  /\ activeTimers' = [activeTimers EXCEPT ![d] = 0]
  /\ commentsCache' = [commentsCache EXCEPT ![d] = Absent]
  /\ job' = [job EXCEPT ![d] = "none"]
  /\ ticks' = Orphaned({d})
  /\ pollEvent' = NoPoll
  /\ res' = Response("stop", StopStatus(d), d, 0)
  /\ agentEvent' = NoAgentEvent
  /\ UNCHANGED <<mcpClient, reactAgent, initPending>>
  /\ UNCHANGED <<diffVars, streamVars, shutdownVars, feedVars>>

\* app.delete('/api/monitors/:docId'): 404 and no change without an entry.
Stop ==
  \E d \in Docs :
    IF activeTimers[d] # 0 THEN StopMonitor(d)
                           ELSE Unchanged(Response("stop", StopStatus(d), d, 0))

\* The mutant of stoppedCount that counts the stored snapshots.
stoppedCountOfCache == Cardinality({d \in Docs : commentsCache[d].present})

\* const stoppedCount = activeTimers.size;
stoppedCount == Cardinality({d \in Docs : activeTimers[d] # 0})

\* app.delete('/api/monitors'): every timer cleared, both maps emptied.
StopAll ==
  /\ liveTimers' =
       liveTimers \ {<<d, activeTimers[d]>> : d \in {x \in Docs : activeTimers[x] # 0}}
  /\ activeTimers' = [d \in Docs |-> 0]
  /\ commentsCache' = [d \in Docs |-> Absent]
  /\ job' = [d \in Docs |-> "none"]
  /\ ticks' = Orphaned(Docs)
  /\ pollEvent' = NoPoll
  /\ res' = Response("stopAll", 200, "-", stoppedCount)
  /\ agentEvent' = NoAgentEvent
  /\ UNCHANGED <<mcpClient, reactAgent, initPending>>
  /\ UNCHANGED <<diffVars, streamVars, shutdownVars, feedVars>>

\* app.get('/api/monitors'): Array.from(activeTimers.keys()).
list == {d \in Docs : activeTimers[d] # 0}

\* ------------------------------------------------- invokeGetCommentsTools

\* The reply ids of a list of new-comment entries, in order.
ReplyIdsOf(newComments) ==
  [i \in 1..Len(newComments) |-> newComments[i].reply_list.replies[1].reply_id]

\* A fetch that failed: every failure path returns null.
FailedPoll(d) == [doc |-> d, val |-> "failed", job |-> "none", reported |-> <<>>]

\* The bag that holds the invocation r once.
One(r) == SetToBag({r})

\* The interval <<d, id>> is live and the model has room for the invocation
\* it starts.
TickCanFire(d, id) ==
  /\ <<d, id>> \in liveTimers
  /\ mcpClient => BagCardinality(ticks) < MaxTicks

\* The interval <<d, id>> fires and calls invokeGetCommentsTools(d): it returns
\* null at once without a client, and otherwise starts the fetch, the awaits
\* of mcpClient.getTools() and commentTool.invoke(). The code between the two
\* awaits reads and writes no shared state, so the fetch is one phase.
TickFire(d, id) ==
  /\ TickCanFire(d, id)
  /\ IF ~mcpClient
       THEN /\ pollEvent' = FailedPoll(d)
            /\ UNCHANGED ticks
       ELSE /\ ticks' = ticks (+) One(NewTick(d, activeTimers[d] = id))
            /\ pollEvent' = NoPoll
  /\ res' = NoRes
  /\ agentEvent' = NoAgentEvent
  /\ UNCHANGED <<mcpClient, reactAgent, initPending, activeTimers, liveTimers,
                 commentsCache, job>>
  /\ UNCHANGED <<diffVars, streamVars, shutdownVars, feedVars>>

\* const cachedComments = commentsCache.get(docId) || [];
CachedComments(d) ==
  IF commentsCache[d].present THEN commentsCache[d].items ELSE <<>>

\* The mutant of CacheAfterFailure that clears the document's entry on a failure.
CacheAfterFailureCleared(d) == [commentsCache EXCEPT ![d] = Absent]

\* The catch block and the early returns leave commentsCache alone.
CacheAfterFailure(d) == commentsCache

\* The fetch of an invocation r fails: getTools threw, the list holds no
\* drive_comment_list tool, invoke threw, or JSON.parse threw. The invocation
\* returns null.
FetchFails ==
  \E r \in BagToSet(ticks) :
    /\ r.pc = "fetch"
    /\ \E failure \in FetchFailures :
         /\ ticks' = ticks (-) One(r)
         /\ pollEvent' = FailedPoll(r.doc)
         /\ commentsCache' = CacheAfterFailure(r.doc)
    /\ res' = NoRes
    /\ agentEvent' = NoAgentEvent
    /\ UNCHANGED <<mcpClient, reactAgent, initPending, activeTimers, liveTimers, job>>
    /\ UNCHANGED <<diffVars, streamVars, shutdownVars, feedVars>>

\* The code from JSON.parse(result) to the start of the dispatch loop, for an
\* invocation r whose fetch returned currentComments: the new replies are
\* detected against the cache, the cache is set, and the dispatch loop starts.
\* Without an agent every reply is skipped and the invocation returns.
StoreFetch(r, currentComments) ==
  LET d == r.doc
      newComments == detectNewComments(CachedComments(d), currentComments)
  IN
    /\ commentsCache' = [commentsCache EXCEPT ![d] = Stored(currentComments)]
    /\ pollEvent' = [doc |-> d, val |-> "ok",
                     job |-> IF r.current THEN job[d] ELSE "stale",
                     reported |-> ReplyIdsOf(newComments)]
    /\ job' = [job EXCEPT ![d] = IF r.current THEN "polled" ELSE @]
    /\ ticks' =
         IF newComments # <<>> /\ reactAgent
           THEN (ticks (-) One(r)) (+)
                  One([r EXCEPT !.pc = "agent", !.fetched = currentComments,
                                !.newComments = newComments, !.index = 1])
           ELSE ticks (-) One(r)

\* The fetch of an invocation r returns a comment list.
FetchReturns ==
  \E r \in BagToSet(ticks) :
    /\ r.pc = "fetch"
    /\ \E currentComments \in FetchSnapshots : StoreFetch(r, currentComments)
    /\ res' = NoRes
    /\ agentEvent' = NoAgentEvent
    /\ UNCHANGED <<mcpClient, reactAgent, initPending, activeTimers, liveTimers>>
    /\ UNCHANGED <<diffVars, streamVars, shutdownVars, feedVars>>

\* The mutant of NextIndex that skips a reply.
NextIndexSkip(r) == r.index + 2

\* index++ of the dispatch loop.
NextIndex(r) == r.index + 1

\* The mutant of TicksAfterAgent in which a failed agent invocation ends the
\* tick.
TicksAfterAgentFailureEnds(r, outcome) ==
  IF r.index < Len(r.newComments) /\ outcome # "failed"
    THEN (ticks (-) One(r)) (+) One([r EXCEPT !.index = NextIndex(r)])
    ELSE ticks (-) One(r)

\* The invocations once processNewCommentWithAgent has returned to r: the
\* loop goes on with the next new reply while index < newComments.length,
\* whatever the agent's outcome, and the invocation returns after the last.
TicksAfterAgent(r, outcome) ==
  IF r.index < Len(r.newComments)
    THEN (ticks (-) One(r)) (+) One([r EXCEPT !.index = NextIndex(r)])
    ELSE ticks (-) One(r)

\* processNewCommentWithAgent returns to an invocation r, the agent's stream
\* having ended or failed (its catch returns null): the loop goes on to the
\* next new reply, or the invocation returns.
AgentReturn ==
  \E r \in BagToSet(ticks) :
    /\ r.pc = "agent"
    /\ \E outcome \in {"done", "failed"} :
         /\ ticks' = TicksAfterAgent(r, outcome)
         /\ agentEvent' = AgentEvent(r.doc, r.index, outcome)
    /\ pollEvent' = NoPoll
    /\ res' = NoRes
    /\ UNCHANGED <<mcpClient, reactAgent, initPending, activeTimers, liveTimers,
                   commentsCache, job>>
    /\ UNCHANGED <<diffVars, streamVars, shutdownVars, feedVars>>

\* ------------------------------------------------------- the specification

Next ==
  \/ InitializeMCPClient
  \/ Start
  \/ Stop
  \/ StopAll
  \/ \E d \in Docs, id \in TimerIds : TickFire(d, id)
  \/ FetchFails
  \/ FetchReturns
  \/ AgentReturn

Spec == Init /\ [][Next]_allVars

\* ----------------------------------- detectNewComments on bounded inputs

ReplyIds == 0..MaxReplyId

\* The reply_list values of a comment whose replies all carry the text `text`.
ReplyLists(text) ==
  {[defined |-> TRUE, replies |-> rs] :
     rs \in SeqUpTo({Reply(i, text) : i \in ReplyIds}, MaxReplies)}
    \cup {[defined |-> FALSE, replies |-> <<>>]}

\* The comment lists of up to MaxComments comments, the i-th comment carrying
\* comment_id i.
Snapshots(text) ==
  UNION {{[i \in 1..k |-> [comment_id |-> i, reply_list |-> g[i]]] :
            g \in [1..k -> ReplyLists(text)]} : k \in 0..MaxComments}

\* The cached list is drawn with the text "a" and the fetched list with "a" or
\* "b", so that a reply id held by both may change its text and its comment.
InitDiff ==
  /\ cachedIn \in Snapshots("a")
  /\ currentIn \in Snapshots("a") \cup Snapshots("b")
  /\ diffOut = <<>>
  /\ diffDone = FALSE
  /\ mcpClient = FALSE
  /\ reactAgent = FALSE
  /\ initPending = FALSE
  /\ activeTimers = [d \in Docs |-> 0]
  /\ liveTimers = {}
  /\ commentsCache = [d \in Docs |-> Absent]
  /\ ticks = EmptyBag
  /\ job = [d \in Docs |-> "none"]
  /\ pollEvent = NoPoll
  /\ res = NoRes
  /\ agentEvent = NoAgentEvent
  /\ StreamIdle
  /\ authProvider = FALSE
  /\ ShutdownIdle
  /\ FeedIdle

\* const newComments = detectNewComments(cachedComments, currentComments);
Detect ==
  /\ ~diffDone
  /\ diffOut' = detectNewComments(cachedIn, currentIn)
  /\ diffDone' = TRUE
  /\ UNCHANGED <<cachedIn, currentIn>>
  /\ UNCHANGED <<vars, streamVars, shutdownVars, feedVars>>

NextDiff == Detect

SpecDiff == InitDiff /\ [][NextDiff]_allVars

\* ------------------------------------------- agent stream, translator, sink

\* Serialized tool arguments: a JSON text, and a text JSON.parse rejects.
ArgsJson == "{ \"q\": 1 }"
ArgsRaw == "{ q: "

\* message.kwargs.content of a tool result: success with data, success
\* without data, a failure code, and a text that is not JSON.
PayloadData == "{\"code\":0,\"data\":{\"n\":1}}"
PayloadNoData == "{\"code\":0}"
PayloadError == "{\"code\":1,\"msg\":\"denied\"}"
PayloadRaw == "done"

\* JSON.parse(text): ok is FALSE where it throws; json is JSON.stringify of
\* the value, code is its code field (-1 without one), data tells whether its
\* data field is truthy, msg is its msg field.
JSONparse(text) ==
  CASE text = ArgsJson ->
         [ok |-> TRUE, json |-> "{\"q\":1}", code |-> -1, data |-> FALSE, msg |-> ""]
    [] text = PayloadData ->
         [ok |-> TRUE, json |-> PayloadData, code |-> 0, data |-> TRUE, msg |-> ""]
    [] text = PayloadNoData ->
         [ok |-> TRUE, json |-> PayloadNoData, code |-> 0, data |-> FALSE, msg |-> ""]
    [] text = PayloadError ->
         [ok |-> TRUE, json |-> PayloadError, code |-> 1, data |-> FALSE, msg |-> "denied"]
    [] OTHER ->
         [ok |-> FALSE, json |-> "", code |-> -1, data |-> FALSE, msg |-> ""]

\* An entry of additional_kwargs.tool_calls; function is FALSE for an entry
\* without a function field. A name is the sequence of its characters.
ToolCall(function, name, arguments) ==
  [function |-> function, name |-> name, arguments |-> arguments]

\* additional_kwargs.tool_calls, absent or a list.
NoCalls == [defined |-> FALSE, calls |-> <<>>]
Calls(calls) == [defined |-> TRUE, calls |-> calls]

\* chunk.agent: absent, or an object whose messages field is "missing", "empty"
\* or a "list" that ends with a message of this content and these tool calls.
NoAgent == [present |-> FALSE, messages |-> "missing", content |-> "", tool_calls |-> NoCalls]
Agent(messages, content, tool_calls) ==
  [present |-> TRUE, messages |-> messages, content |-> content, tool_calls |-> tool_calls]

\* A message of chunk.tools; kwargs is FALSE without kwargs.tool_call_id. The
\* tool_call_id is the sequence of its characters.
ToolMessage(kwargs, tool_call_id, content) ==
  [kwargs |-> kwargs, tool_call_id |-> tool_call_id, content |-> content]

\* chunk.tools: absent, or an object with one entry, an array of messages or not.
NoTools == [present |-> FALSE, isArray |-> FALSE, messages |-> <<>>]
Tools(isArray, messages) == [present |-> TRUE, isArray |-> isArray, messages |-> messages]

\* chunk.__end__ and chunk.messages.
NoEnd == [present |-> FALSE, messages |-> "missing", content |-> ""]
End(messages, content) == [present |-> TRUE, messages |-> messages, content |-> content]

Chunk(agent, tools, end) == [agent |-> agent, tools |-> tools, end |-> end]

\* The chunk shapes the stream draws from.
ChunkShapes ==
  { Chunk(Agent("list", "hi", NoCalls), NoTools, NoEnd),
    Chunk(Agent("list", "", Calls(<<ToolCall(TRUE, <<"s">>, ArgsJson)>>)), NoTools, NoEnd),
    Chunk(Agent("list", "", Calls(<<ToolCall(TRUE, <<"s">>, ArgsRaw),
                                    ToolCall(TRUE, <<"e">>, ArgsJson)>>)), NoTools, NoEnd),
    Chunk(Agent("list", "", Calls(<<ToolCall(FALSE, <<>>, "")>>)), NoTools, NoEnd),
    Chunk(Agent("missing", "", NoCalls), NoTools, NoEnd),
    Chunk(Agent("empty", "", NoCalls), NoTools, NoEnd),
    Chunk(NoAgent, Tools(TRUE, <<ToolMessage(FALSE, <<>>, ""),
                                 ToolMessage(TRUE, <<"s", ":", "1">>, PayloadData)>>), NoEnd),
    Chunk(NoAgent, Tools(TRUE, <<ToolMessage(TRUE, <<"s", ":", "1">>, PayloadNoData)>>), NoEnd),
    Chunk(NoAgent, Tools(TRUE, <<ToolMessage(TRUE, <<"e", ":", "2">>, PayloadError)>>), NoEnd),
    Chunk(NoAgent, Tools(TRUE, <<ToolMessage(TRUE, <<"e", ":", "2">>, PayloadRaw)>>), NoEnd),
    Chunk(NoAgent, Tools(FALSE, <<>>), NoEnd),
    Chunk(NoAgent, NoTools, End("list", "bye")),
    Chunk(NoAgent, NoTools, NoEnd) }

\* tool_call_id.split(':')[0]
RECURSIVE FirstSegment(_)
FirstSegment(chars) ==
  IF chars = <<>> \/ Head(chars) = ":" THEN <<>>
  ELSE <<Head(chars)>> \o FirstSegment(Tail(chars))

\* An event as the sink receives it: a `data:` frame of the response, or a
\* group of console lines.
Frame(type, tool, text, success) ==
  [type |-> type, tool |-> tool, text |-> text, success |-> success]

ErrorFrame == Frame("error", <<>>, "", FALSE)
DoneFrame == Frame("[DONE]", <<>>, "", TRUE)

\* What a stretch of translator code has emitted, and whether it threw.
Ok(out) == [out |-> out, threw |-> FALSE]
Threw(out) == [out |-> out, threw |-> TRUE]
Then(a, b) == IF a.threw THEN a ELSE [out |-> a.out \o b.out, threw |-> b.threw]

\* One entry of tool_calls: reading toolCall.function.name throws without a
\* function field. execute parses the arguments inside the frame it writes,
\* processNewCommentWithAgent logs the name only, runAgent logs the name and
\* then parses.
ToolCallEvent(s, toolCall) ==
  IF ~toolCall.function THEN Threw(<<>>)
  ELSE CASE s = "sse" ->
              IF JSONparse(toolCall.arguments).ok
                THEN Ok(<<Frame("tool_call", toolCall.name,
                                JSONparse(toolCall.arguments).json, TRUE)>>)
                ELSE Threw(<<>>)
         [] s = "console" -> Ok(<<Frame("tool_call", toolCall.name, "", TRUE)>>)
         [] OTHER ->
              IF JSONparse(toolCall.arguments).ok
                THEN Ok(<<Frame("tool_call", toolCall.name,
                                JSONparse(toolCall.arguments).json, TRUE)>>)
                ELSE Threw(<<Frame("tool_call", toolCall.name, "", TRUE)>>)

\* for (const toolCall of agentMessage.additional_kwargs.tool_calls)
RECURSIVE ToolCallEvents(_, _)
ToolCallEvents(s, calls) ==
  IF calls = <<>> THEN Ok(<<>>)
  ELSE Then(ToolCallEvent(s, Head(calls)), ToolCallEvents(s, Tail(calls)))

\* if (chunk.agent): messages[messages.length - 1] throws without a messages
\* list, and reading a field of the last message throws for an empty list.
AgentEvents(s, agent) ==
  IF ~agent.present THEN Ok(<<>>)
  ELSE IF agent.messages # "list" THEN Threw(<<>>)
  ELSE Then(Ok(IF agent.content # "" THEN <<Frame("agent", <<>>, agent.content, TRUE)>>
                                     ELSE <<>>),
            IF agent.tool_calls.defined THEN ToolCallEvents(s, agent.tool_calls.calls)
                                        ELSE Ok(<<>>))

\* success: true of the tool_response frame of execute.
SseSuccess(message) == TRUE

\* One message of chunk.tools with a tool_call_id. execute never reads the
\* content; processNewCommentWithAgent reports success for code === 0 with
\* data, runAgent for code === 0; both print a content that does not parse
\* as it is.
ToolResultEvent(s, message) ==
  LET toolName == FirstSegment(message.tool_call_id)
      content == JSONparse(message.content)
  IN CASE s = "sse" -> Frame("tool_response", toolName, "", SseSuccess(message))
       [] s = "console" ->
            IF ~content.ok THEN Frame("tool_response", toolName, message.content, TRUE)
            ELSE IF content.code = 0 /\ content.data
              THEN Frame("tool_response", toolName, content.json, TRUE)
              ELSE Frame("tool_response", toolName, content.msg, FALSE)
       [] OTHER ->
            IF ~content.ok THEN Frame("tool_response", toolName, message.content, TRUE)
            ELSE IF content.code = 0
              THEN Frame("tool_response", toolName, content.json, TRUE)
              ELSE Frame("tool_response", toolName, content.msg, FALSE)

\* for (const message of toolMessages) if (message.kwargs?.tool_call_id)
RECURSIVE ToolResultEvents(_, _)
ToolResultEvents(s, messages) ==
  IF messages = <<>> THEN <<>>
  ELSE (IF Head(messages).kwargs THEN <<ToolResultEvent(s, Head(messages))>> ELSE <<>>)
         \o ToolResultEvents(s, Tail(messages))

\* if (chunk.tools) ... if (Array.isArray(toolMessages))
ToolsEvents(s, tools) ==
  IF tools.present /\ tools.isArray THEN ToolResultEvents(s, tools.messages) ELSE <<>>

\* The last message of chunk.messages, for a chunk with __end__: reading its
\* content throws for an empty list.
FinalEvent(end) ==
  IF end.messages = "missing" THEN Ok(<<>>)
  ELSE IF end.messages = "empty" THEN Threw(<<>>)
  ELSE Ok(<<Frame("final", <<>>, end.content, TRUE)>>)

\* if (chunk.__end__ ...): execute and runAgent handle the final answer in
\* the loop, processNewCommentWithAgent keeps the chunk for after the loop.
EndEvents(s, end) ==
  IF ~end.present \/ s = "console" THEN Ok(<<>>) ELSE FinalEvent(end)

\* The body of the for await loop for one chunk.
TranslateChunk(s, chunk) ==
  Then(Then(AgentEvents(s, chunk.agent), Ok(ToolsEvents(s, chunk.tools))),
       EndEvents(s, chunk.end))

Sinks == {"sse", "console", "example"}

\* The mutant of EndsAfterCatch that forgets res.end() in the catch.
EndsAfterCatchNoEnd == endCalls

\* res.end() of catch (streamError).
EndsAfterCatch == IF sink = "sse" THEN endCalls + 1 ELSE endCalls

\* The catch around the stream: execute writes one error frame and ends the
\* response, processNewCommentWithAgent returns null, runAgent logs.
Caught(out) ==
  /\ written' = IF sink = "sse" THEN written \o out \o <<ErrorFrame>> ELSE written \o out
  /\ endCalls' = EndsAfterCatch
  /\ sinkPc' = IF sink = "sse" THEN "closed" ELSE "returned"
  /\ sinkStatus' = IF sink = "console" THEN "null" ELSE sinkStatus
  /\ UNCHANGED chunkIndex

\* The handler starts: execute answers 503 without an agent and 400 without a
\* message, else writes the SSE head; processNewCommentWithAgent returns null
\* without an agent; then the await of stream().
Execute ==
  /\ sinkPc = "request"
  /\ IF sink # "example" /\ ~reactAgent
       THEN /\ sinkStatus' = IF sink = "sse" THEN "503" ELSE "null"
            /\ sinkPc' = "returned"
       ELSE IF sink = "sse" /\ ~hasMessage
         THEN /\ sinkStatus' = "400"
              /\ sinkPc' = "returned"
         ELSE /\ sinkStatus' = IF sink = "sse" THEN "200" ELSE sinkStatus
              /\ sinkPc' = "opening"
  /\ UNCHANGED <<sink, hasMessage, chunks, streamFails, chunkIndex, written, endCalls>>
  /\ UNCHANGED <<vars, diffVars, shutdownVars, feedVars>>

\* await reactAgent.stream(...) settles.
StreamOpens ==
  /\ sinkPc = "opening"
  /\ IF streamFails = "open"
       THEN Caught(<<>>)
       ELSE /\ sinkPc' = "reading"
            /\ UNCHANGED <<chunkIndex, written, endCalls, sinkStatus>>
  /\ UNCHANGED <<sink, hasMessage, chunks, streamFails>>
  /\ UNCHANGED <<vars, diffVars, shutdownVars, feedVars>>

\* The stream yields its next chunk and the loop body translates it.
ChunkArrives ==
  /\ sinkPc = "reading"
  /\ chunkIndex < Len(chunks)
  /\ LET t == TranslateChunk(sink, chunks[chunkIndex + 1]) IN
       IF t.threw
         THEN Caught(t.out)
         ELSE /\ written' = written \o t.out
              /\ chunkIndex' = chunkIndex + 1
              /\ UNCHANGED <<endCalls, sinkPc, sinkStatus>>
  /\ UNCHANGED <<sink, hasMessage, chunks, streamFails>>
  /\ UNCHANGED <<vars, diffVars, shutdownVars, feedVars>>

\* finalResponse of processNewCommentWithAgent: the last chunk with __end__.
RECURSIVE FinalResponse(_)
FinalResponse(cs) ==
  IF cs = <<>> THEN NoEnd
  ELSE IF cs[Len(cs)].end.present THEN cs[Len(cs)].end
  ELSE FinalResponse(SubSeq(cs, 1, Len(cs) - 1))

\* The iteration ends: it rejects, or the stream is exhausted. execute writes
\* [DONE] and ends the response; processNewCommentWithAgent prints the final
\* answer and returns finalResponse; runAgent returns.
StreamEnds ==
  /\ sinkPc = "reading"
  /\ chunkIndex = Len(chunks)
  /\ IF streamFails = "after" THEN Caught(<<>>)
     ELSE CASE sink = "sse" ->
                 /\ written' = written \o <<DoneFrame>>
                 /\ endCalls' = endCalls + 1
                 /\ sinkPc' = "closed"
                 /\ UNCHANGED <<chunkIndex, sinkStatus>>
            [] sink = "console" ->
                 LET final == FinalResponse(chunks) IN
                   IF final.present /\ FinalEvent(final).threw
                     THEN Caught(<<>>)
                     ELSE /\ written' = IF final.present
                                          THEN written \o FinalEvent(final).out
                                          ELSE written
                          /\ sinkStatus' = IF final.present THEN "final" ELSE "null"
                          /\ sinkPc' = "returned"
                          /\ UNCHANGED <<chunkIndex, endCalls>>
            [] OTHER ->
                 /\ sinkPc' = "returned"
                 /\ UNCHANGED <<chunkIndex, written, endCalls, sinkStatus>>
  /\ UNCHANGED <<sink, hasMessage, chunks, streamFails>>
  /\ UNCHANGED <<vars, diffVars, shutdownVars, feedVars>>

InitStream ==
  /\ sink \in Sinks
  /\ hasMessage \in BOOLEAN
  /\ chunks \in SeqUpTo(ChunkShapes, MaxChunks)
  /\ streamFails \in {"no", "open", "after"}
  /\ chunkIndex = 0
  /\ written = <<>>
  /\ endCalls = 0
  /\ sinkPc = "request"
  /\ sinkStatus = "none"
  /\ reactAgent \in BOOLEAN
  /\ mcpClient = reactAgent
  /\ initPending = FALSE
  /\ activeTimers = [d \in Docs |-> 0]
  /\ liveTimers = {}
  /\ commentsCache = [d \in Docs |-> Absent]
  /\ ticks = EmptyBag
  /\ job = [d \in Docs |-> "none"]
  /\ pollEvent = NoPoll
  /\ res = NoRes
  /\ agentEvent = NoAgentEvent
  /\ DiffIdle
  /\ authProvider = mcpClient
  /\ ShutdownIdle
  /\ FeedIdle

NextStream ==
  \/ Execute
  \/ StreamOpens
  \/ ChunkArrives
  \/ StreamEnds

SpecStream == InitStream /\ [][NextStream]_allVars

\* The handler runs on when the promise it awaits settles, and the agent
\* stream yields, ends or rejects.
SpecStreamFair == SpecStream /\ WF_allVars(NextStream)

\* ----------------------------------------------------------------- shutdown

\* The mutant of AfterCleanup in which a failed cleanup goes to the exit.
AfterCleanupFailureExits(outcome) ==
  IF mcpClient /\ outcome # "failed" THEN "close" ELSE "exit"

\* if (mcpClient) { await mcpClient.close() } after the cleanup's try/catch,
\* whatever the cleanup did.
AfterCleanup(outcome) == IF mcpClient THEN "close" ELSE "exit"

\* The handler of sig goes to the await of mcpClient.close(), or skips it and
\* calls process.exit(0).
CloseOrExit(sig, outcome) ==
  IF AfterCleanup(outcome) = "close"
    THEN /\ shutdownPc' = [shutdownPc EXCEPT ![sig] = "close"]
         /\ UNCHANGED <<closeTried, exitedBy>>
    ELSE /\ shutdownPc' = shutdownPc
         /\ closeTried' = [closeTried EXCEPT ![sig] = "skipped"]
         /\ exitedBy' = sig

\* process.on(sig): every registered timer is cleared and both maps are
\* emptied, then authProvider.cleanup() is awaited if there is a provider.
Signal(sig) ==
  /\ exitedBy = "none"
  /\ shutdownPc[sig] = "idle"
  /\ liveTimers' =
       liveTimers \ {<<d, activeTimers[d]>> : d \in {x \in Docs : activeTimers[x] # 0}}
  /\ activeTimers' = [d \in Docs |-> 0]
  /\ commentsCache' = [d \in Docs |-> Absent]
  /\ job' = [d \in Docs |-> "none"]
  /\ ticks' = Orphaned(Docs)
  /\ IF authProvider
       THEN /\ shutdownPc' = [shutdownPc EXCEPT ![sig] = "cleanup"]
            /\ UNCHANGED <<cleanupTried, closeTried, exitedBy>>
       ELSE /\ cleanupTried' = [cleanupTried EXCEPT ![sig] = "skipped"]
            /\ CloseOrExit(sig, "skipped")
  /\ pollEvent' = NoPoll
  /\ res' = NoRes
  /\ agentEvent' = NoAgentEvent
  /\ UNCHANGED <<mcpClient, reactAgent, initPending, authProvider>>
  /\ UNCHANGED <<diffVars, streamVars, feedVars>>

\* await authProvider.cleanup() settles in the handler of sig; a rejection is
\* caught and logged.
CleanupReturn(sig) ==
  /\ exitedBy = "none"
  /\ shutdownPc[sig] = "cleanup"
  /\ \E outcome \in {"ok", "failed"} :
       /\ cleanupTried' = [cleanupTried EXCEPT ![sig] = outcome]
       /\ CloseOrExit(sig, outcome)
  /\ pollEvent' = NoPoll
  /\ res' = NoRes
  /\ agentEvent' = NoAgentEvent
  /\ UNCHANGED <<mcpClient, reactAgent, initPending, activeTimers, liveTimers,
                 commentsCache, ticks, job, authProvider>>
  /\ UNCHANGED <<diffVars, streamVars, feedVars>>

\* await mcpClient.close() settles in the handler of sig; a rejection is
\* caught and logged; then process.exit(0).
CloseReturn(sig) ==
  /\ exitedBy = "none"
  /\ shutdownPc[sig] = "close"
  /\ \E outcome \in {"ok", "failed"} :
       closeTried' = [closeTried EXCEPT ![sig] = outcome]
  /\ exitedBy' = sig
  /\ UNCHANGED shutdownPc
  /\ pollEvent' = NoPoll
  /\ res' = NoRes
  /\ agentEvent' = NoAgentEvent
  /\ UNCHANGED <<mcpClient, reactAgent, initPending, activeTimers, liveTimers,
                 commentsCache, ticks, job, authProvider, cleanupTried>>
  /\ UNCHANGED <<diffVars, streamVars, feedVars>>

\* The process after app.listen: initializeMCPClient has made the provider
\* and the client and awaits getTools(), or one of the constructors threw.
InitShutdown ==
  /\ mcpClient \in BOOLEAN
  /\ authProvider \in {a \in BOOLEAN : mcpClient => a}
  /\ reactAgent = FALSE
  /\ initPending = mcpClient
  /\ activeTimers = [d \in Docs |-> 0]
  /\ liveTimers = {}
  /\ commentsCache = [d \in Docs |-> Absent]
  /\ ticks = EmptyBag
  /\ job = [d \in Docs |-> "none"]
  /\ pollEvent = NoPoll
  /\ res = NoRes
  /\ agentEvent = NoAgentEvent
  /\ DiffIdle
  /\ StreamIdle
  /\ ShutdownIdle
  /\ FeedIdle

\* No signal has been delivered.
NoSignal == exitedBy = "none" /\ \A sig \in Signals : shutdownPc[sig] = "idle"

\* The monitor runs until a signal arrives. After its first, synchronous step
\* a handler reads mcpClient and nothing else of the monitor, and no step of
\* the monitor reads or writes what the handlers write: between the signal and
\* the exit, the end of initializeMCPClient is the one step of the monitor
\* that matters to a handler.
NextShutdown ==
  \/ NoSignal /\ Next
  \/ exitedBy = "none" /\ ~NoSignal /\ InitializeMCPClient
  \/ \E sig \in Signals : Signal(sig)
  \/ \E sig \in Signals : CleanupReturn(sig)
  \/ \E sig \in Signals : CloseReturn(sig)

SpecShutdown == InitShutdown /\ [][NextShutdown]_allVars

\* ------------------------------------- one job and the remote comment list

\* The document of the job.
JobDoc == "d1"

\* A list between SnapA and SnapC: one reply added to the first comment.
SnapB == <<Comment(1, <<Reply(1, "a"), Reply(2, "a")>>)>>

\* The lists the remote service holds over time.
UpstreamSnapshots == FetchSnapshots \cup {SnapB}

\* The remote list next holds every reply id that old holds, and more.
OnlyAdds(old, next) ==
  /\ CachedCommentIds(old, {}) \subseteq CachedCommentIds(next, {})
  /\ CachedCommentIds(old, {}) # CachedCommentIds(next, {})

\* The state after start(JobDoc) in a process whose agent is initialized.
InitJob ==
  /\ mcpClient = TRUE
  /\ reactAgent = TRUE
  /\ initPending = FALSE
  /\ activeTimers = [d \in Docs |-> IF d = JobDoc THEN 1 ELSE 0]
  /\ liveTimers = {<<JobDoc, 1>>}
  /\ commentsCache = [d \in Docs |-> Absent]
  /\ ticks = EmptyBag
  /\ job = [d \in Docs |-> IF d = JobDoc THEN "started" ELSE "none"]
  /\ pollEvent = NoPoll
  /\ res = NoRes
  /\ agentEvent = NoAgentEvent
  /\ upstream \in UpstreamSnapshots
  /\ dispatched = [id \in UpstreamReplyIds |-> 0]
  /\ DiffIdle
  /\ StreamIdle
  /\ authProvider = TRUE
  /\ ShutdownIdle

\* Users add replies to the document.
UpstreamGrows ==
  /\ \E next \in UpstreamSnapshots :
       /\ OnlyAdds(upstream, next)
       /\ upstream' = next
  /\ pollEvent' = NoPoll
  /\ res' = NoRes
  /\ agentEvent' = NoAgentEvent
  /\ UNCHANGED <<mcpClient, reactAgent, initPending, activeTimers, liveTimers,
                 commentsCache, ticks, job, dispatched>>
  /\ UNCHANGED <<diffVars, streamVars, shutdownVars>>

\* The remote service reads the comment list for the fetch of an invocation
\* r, at some moment of the await of commentTool.invoke(); the response is on
\* its way.
UpstreamServes ==
  /\ \E r \in BagToSet(ticks) :
       /\ r.pc = "fetch"
       /\ ticks' = (ticks (-) One(r)) (+)
                     One([r EXCEPT !.pc = "served", !.fetched = upstream])
  /\ pollEvent' = NoPoll
  /\ res' = NoRes
  /\ agentEvent' = NoAgentEvent
  /\ UNCHANGED <<mcpClient, reactAgent, initPending, activeTimers, liveTimers,
                 commentsCache, job>>
  /\ UNCHANGED <<diffVars, streamVars, shutdownVars, feedVars>>

\* One more call of processNewCommentWithAgent for the reply id.
Dispatched(id) ==
  [dispatched EXCEPT ![id] = IF @ < MaxDispatches THEN @ + 1 ELSE @]

\* The response of the remote service reaches an invocation r: the code from
\* JSON.parse(result) on, and the call of processNewCommentWithAgent for the
\* first new reply.
JobFetchReturns ==
  \E r \in BagToSet(ticks) :
    /\ r.pc = "served"
    /\ StoreFetch(r, r.fetched)
    /\ LET newComments == detectNewComments(CachedComments(r.doc), r.fetched) IN
         dispatched' = IF newComments # <<>> /\ reactAgent
                         THEN Dispatched(ReplyIdsOf(newComments)[1])
                         ELSE dispatched
    /\ res' = NoRes
    /\ agentEvent' = NoAgentEvent
    /\ UNCHANGED <<mcpClient, reactAgent, initPending, activeTimers, liveTimers>>
    /\ UNCHANGED <<diffVars, streamVars, shutdownVars, upstream>>

\* processNewCommentWithAgent returns to an invocation r, and the loop calls
\* it for the next new reply if there is one.
JobAgentReturn ==
  \E r \in BagToSet(ticks) :
    /\ r.pc = "agent"
    /\ \E outcome \in {"done", "failed"} :
         /\ ticks' = TicksAfterAgent(r, outcome)
         /\ agentEvent' = AgentEvent(r.doc, r.index, outcome)
    /\ dispatched' = IF r.index < Len(r.newComments)
                       THEN Dispatched(ReplyIdsOf(r.newComments)[NextIndex(r)])
                       ELSE dispatched
    /\ pollEvent' = NoPoll
    /\ res' = NoRes
    /\ UNCHANGED <<mcpClient, reactAgent, initPending, activeTimers, liveTimers,
                   commentsCache, job>>
    /\ UNCHANGED <<diffVars, streamVars, shutdownVars, upstream>>

\* The lifetime of one job: no start, stop or signal; the timer fires, the
\* remote list grows, fetches are served and return in any order.
NextJob ==
  \/ UpstreamGrows
  \/ \E d \in Docs, id \in TimerIds : TickFire(d, id)
  \/ UpstreamServes
  \/ FetchFails
  \/ JobFetchReturns
  \/ JobAgentReturn

SpecJob == InitJob /\ [][NextJob]_allVars

\* ------------------------------------------------ claims about the monitor

\* The number of invocations in flight that the registered timer of document
\* d fired.
InFlight(d) ==
  BagCardinality([r \in {x \in BagToSet(ticks) : x.doc = d /\ x.current} |-> ticks[r]])

\* C1: for one document, two ticks of the recurring timer never overlap: no
\* two invocations fired by the registered timer of the same document are in
\* flight (between the start of the fetch and the end of the dispatch loop)
\* at the same time.
C1_TicksNeverOverlap ==
  \A d \in Docs : InFlight(d) <= 1

\* C2: restart clears the baseline: the first fetch that an invocation of a
\* job made by a restart stores reports no new replies.
C2_RestartClearsBaseline ==
  (pollEvent.val = "ok" /\ pollEvent.job = "restarted") => pollEvent.reported = <<>>

\* C3: a document has a stored snapshot only if it has a registered job.
C3_SnapshotOnlyWithJob ==
  \A d \in Docs : commentsCache[d].present => activeTimers[d] # 0

\* C4: from the first dispatch of a tick of the registered job to the tick's
\* end, the stored snapshot of its document is the snapshot the tick fetched.
C4_SnapshotStaysFetched ==
  \A r \in BagToSet(ticks) :
    (r.pc = "agent" /\ r.current) => commentsCache[r.doc] = Stored(r.fetched)

\* C5: a step in which a fetch fails changes no stored snapshot, no job and
\* no timer, starts no dispatch and ends the invocation, and after it every
\* timer that was live can fire its next tick.
C5_FetchFailureSkipsTick ==
  [][pollEvent'.val = "failed" =>
       /\ commentsCache' = commentsCache
       /\ activeTimers' = activeTimers
       /\ liveTimers' = liveTimers
       /\ ticks' # ticks =>
            \E r \in BagToSet(ticks) : r.pc = "fetch" /\ ticks' = ticks (-) One(r)
       /\ \A d \in Docs, id \in TimerIds :
            <<d, id>> \in liveTimers => TickCanFire(d, id)']_allVars

\* C5's case: a fetch failed for a registered document that keeps its stored
\* snapshot.
C5_Witness ==
  /\ pollEvent.val = "failed"
  /\ activeTimers[pollEvent.doc] # 0
  /\ commentsCache[pollEvent.doc] = Stored(SnapA)
  /\ \E id \in TimerIds : <<pollEvent.doc, id>> \in liveTimers

\* C6: a successful fetch for a document without a stored snapshot reports no
\* new reply and starts no dispatch.
C6_FirstPollBaseline ==
  [][\A d \in Docs :
       (pollEvent'.val = "ok" /\ pollEvent'.doc = d /\ ~commentsCache[d].present) =>
         /\ pollEvent'.reported = <<>>
         /\ \A r \in BagToSet(ticks') :
              r.pc = "agent" => CopiesIn(r, ticks') <= CopiesIn(r, ticks)]_allVars

\* C6's case: the first poll of a job stored a snapshot that holds replies and
\* reported none of them.
C6_Witness ==
  /\ pollEvent.val = "ok"
  /\ pollEvent.job = "started"
  /\ pollEvent.reported = <<>>
  /\ commentsCache[pollEvent.doc] = Stored(SnapC)
  /\ reactAgent

\* The ids of the replies of a comment list that carry one, in order.
RECURSIVE IdsInOrder(_)
IdsInOrder(comments) ==
  IF comments = <<>> THEN <<>>
  ELSE SelectSeq([j \in 1..Len(Head(comments).reply_list.replies) |->
                    Head(comments).reply_list.replies[j].reply_id],
                 LAMBDA id : id # 0)
         \o IdsInOrder(Tail(comments))

\* C9: once a poll has stored a snapshot without comments, the next fetch
\* that is stored reports every reply with an id as new.
C9_EmptySnapshotIsNoBaseline ==
  [][\A d \in Docs :
       (pollEvent'.val = "ok" /\ pollEvent'.doc = d /\ commentsCache[d] = Stored(<<>>)) =>
         pollEvent'.reported = IdsInOrder(commentsCache'[d].items)]_allVars

\* C10: every document has at most one live timer, and list() is the set of
\* the documents that have one.
C10_OneJobPerDocument ==
  /\ \A d \in Docs : Cardinality(LiveTimerIds(liveTimers, d)) <= 1
  /\ list = {d \in Docs : LiveTimerIds(liveTimers, d) # {}}

\* C10's case: a job was replaced or removed while one of its ticks was in
\* flight, and its document has a registered job again.
C10_Witness ==
  \E r \in BagToSet(ticks) :
    /\ ~r.current
    /\ activeTimers[r.doc] # 0
    /\ \E d \in Docs : activeTimers[d] = 0

\* C11: a stop for a document without a registered job is answered with 404,
\* and changes neither the registry nor a timer nor a stored snapshot.
C11_StopMissingIsNotFound ==
  [][\A d \in Docs :
       (res'.route = "stop" /\ res'.doc = d /\ activeTimers[d] = 0) =>
         /\ res'.status = 404
         /\ activeTimers' = activeTimers
         /\ liveTimers' = liveTimers
         /\ commentsCache' = commentsCache]_allVars

\* C11's case: a stop was answered with 404 while another document has a job
\* and a stored snapshot.
C11_Witness ==
  /\ res.route = "stop"
  /\ res.status = 404
  /\ \E d \in Docs : activeTimers[d] # 0 /\ commentsCache[d].present

\* C12: stopAll answers with the number of jobs registered when it was
\* called, clears the timer of each of them, and leaves activeTimers and
\* commentsCache empty, so that list() is empty after the step.
C12_StopAllCountsAndEmpties ==
  [][res'.route = "stopAll" =>
       /\ res'.count = Cardinality(list)
       /\ \A d \in list : <<d, activeTimers[d]>> \notin liveTimers'
       /\ \A d \in Docs : activeTimers'[d] = 0 /\ ~commentsCache'[d].present
       /\ list' = {}]_allVars

\* C12's case: stopAll stopped two jobs.
C12_Witness ==
  /\ res.route = "stopAll"
  /\ res.count = 2
  /\ list = {}

\* The copies of the invocation r in the bag b, whether or not its timer is
\* still the registered one.
Dispatching(r, b) ==
  CopiesIn([r EXCEPT !.current = TRUE], b) + CopiesIn([r EXCEPT !.current = FALSE], b)

\* C13: within one tick the new replies are dispatched one at a time in the
\* order of the diff result: the dispatch of the first reply starts in the
\* step that stored the fetch, and the dispatch of reply i+1 starts only in
\* the step in which the agent invocation for reply i of the same tick
\* returns.
C13_DispatchInOrder ==
  [][\A r \in BagToSet(ticks') :
       (r.pc = "agent" /\ Dispatching(r, ticks') > Dispatching(r, ticks)) =>
         /\ r.index \in 1..Len(r.newComments)
         /\ IF r.index = 1
              THEN /\ pollEvent'.val = "ok"
                   /\ pollEvent'.doc = r.doc
                   /\ pollEvent'.reported = ReplyIdsOf(r.newComments)
              ELSE /\ agentEvent' = AgentEvent(r.doc, r.index - 1, agentEvent'.outcome)
                   /\ agentEvent'.outcome \in {"done", "failed"}
                   /\ Dispatching([r EXCEPT !.index = @ - 1], ticks')
                        < Dispatching([r EXCEPT !.index = @ - 1], ticks)]_allVars

\* C13's case: the agent is done with the first of two new replies and the
\* tick dispatches the second.
C13_Witness ==
  /\ agentEvent.outcome = "done"
  /\ agentEvent.index = 1
  /\ \E r \in BagToSet(ticks) :
       /\ r.pc = "agent"
       /\ r.doc = agentEvent.doc
       /\ r.index = 2
       /\ ReplyIdsOf(r.newComments) = <<2, 3>>

\* C19: a step in which an agent invocation fails changes no job, timer or
\* stored snapshot, and the tick goes on: it dispatches the next new reply if
\* there is one and returns otherwise.
C19_AgentFailureKeepsTick ==
  [][agentEvent'.outcome = "failed" =>
       /\ activeTimers' = activeTimers
       /\ liveTimers' = liveTimers
       /\ commentsCache' = commentsCache
       /\ job' = job
       /\ \E r \in BagToSet(ticks) :
            /\ r.pc = "agent"
            /\ r.doc = agentEvent'.doc
            /\ r.index = agentEvent'.index
            /\ ticks' =
                 IF r.index < Len(r.newComments)
                   THEN (ticks (-) One(r)) (+) One([r EXCEPT !.index = r.index + 1])
                   ELSE ticks (-) One(r)]_allVars

\* C19's case: the agent failed on the first of two new replies of a tick of
\* the registered job, and the tick dispatches the second.
C19_Witness ==
  /\ agentEvent.outcome = "failed"
  /\ agentEvent.index = 1
  /\ \E r \in BagToSet(ticks) :
       /\ r.pc = "agent"
       /\ r.doc = agentEvent.doc
       /\ r.index = 2
       /\ r.current
       /\ <<r.doc, activeTimers[r.doc]>> \in liveTimers

\* The number of invocations of document d in the bag b that await their
\* fetch.
Fetching(d, b) ==
  BagCardinality([r \in {x \in BagToSet(b) : x.doc = d /\ x.pc = "fetch"} |-> b[r]])

\* A step in which a timer of document d fires and invokeGetCommentsTools(d)
\* begins: a fetch starts, or the invocation returns null at once for want
\* of a client.
TickBegins(d) ==
  \/ Fetching(d, ticks') > Fetching(d, ticks)
  \/ pollEvent'.val = "failed" /\ pollEvent'.doc = d /\ ticks' = ticks

\* C21: while a document has no registered job (from stop or stopAll to the
\* next start) no tick begins for it; a stop ends no invocation in flight,
\* and an invocation in flight leaves only by its own steps: its fetch ends
\* and the dispatch of the replies it detected starts, and each agent
\* invocation that returns is followed by the dispatch of the next reply it
\* detected.
C21_StopCancelsFutureTicksOnly ==
  [][/\ \A d \in Docs : activeTimers[d] = 0 => ~TickBegins(d)
     /\ res'.route \in {"stop", "stopAll"} =>
          \A r \in BagToSet(ticks) : Dispatching(r, ticks') = Dispatching(r, ticks)
     /\ \A r \in BagToSet(ticks) :
          Dispatching(r, ticks') < Dispatching(r, ticks) =>
            IF r.pc = "fetch"
              THEN /\ pollEvent'.doc = r.doc
                   /\ pollEvent'.val \in {"ok", "failed"}
                   /\ (pollEvent'.val = "ok" /\ pollEvent'.reported # <<>> /\ reactAgent) =>
                        \E q \in BagToSet(ticks') :
                          /\ q.pc = "agent" /\ q.doc = r.doc /\ q.index = 1
                          /\ ReplyIdsOf(q.newComments) = pollEvent'.reported
                          /\ Dispatching(q, ticks') > Dispatching(q, ticks)
              ELSE /\ agentEvent'.doc = r.doc
                   /\ agentEvent'.index = r.index
                   /\ agentEvent'.outcome \in {"done", "failed"}
                   /\ r.index < Len(r.newComments) =>
                        Dispatching([r EXCEPT !.index = @ + 1], ticks')
                          > Dispatching([r EXCEPT !.index = @ + 1], ticks)]_allVars

\* C21's case: a document was stopped while one of its ticks was dispatching,
\* no fetch has stored a snapshot for it since, and the agent invocation for
\* the last of the two replies the tick detected has just returned.
C21_Witness ==
  /\ agentEvent.index = 2
  /\ agentEvent.outcome = "done"
  /\ activeTimers[agentEvent.doc] = 0
  /\ ~commentsCache[agentEvent.doc].present
  /\ LiveTimerIds(liveTimers, agentEvent.doc) = {}
  /\ \A r \in BagToSet(ticks) : r.doc # agentEvent.doc

\* A step of a tick of document d: the tick begins, its fetch ends, or one of
\* its agent invocations returns.
TickStep(d) ==
  \/ TickBegins(d)
  \/ pollEvent'.doc = d
  \/ agentEvent'.doc = d

\* A step leaves document e alone: its map entries, its timers, its job and
\* its invocations in flight.
Untouched(e) ==
  /\ commentsCache'[e] = commentsCache[e]
  /\ activeTimers'[e] = activeTimers[e]
  /\ LiveTimerIds(liveTimers', e) = LiveTimerIds(liveTimers, e)
  /\ job'[e] = job[e]
  /\ \A r \in BagToSet(ticks) \cup BagToSet(ticks') :
       r.doc = e => CopiesIn(r, ticks') = CopiesIn(r, ticks)

\* C22: a step of a tick of document d, and a start or a stop of d, leave
\* every other document alone, and what a tick of d reports as new is the
\* diff of d's stored snapshot and the list it fetched, which it stores under
\* d.
C22_DocumentsAreIndependent ==
  [][\A d \in Docs :
       /\ (TickStep(d) \/ (res'.route \in {"start", "stop"} /\ res'.doc = d)) =>
            \A e \in Docs \ {d} : Untouched(e)
       /\ (pollEvent'.val = "ok" /\ pollEvent'.doc = d) =>
            /\ commentsCache'[d].present
            /\ pollEvent'.reported =
                 ReplyIdsOf(detectNewComments(CachedComments(d), commentsCache'[d].items))
       /\ (pollEvent'.val = "failed" /\ pollEvent'.doc = d) =>
            commentsCache'[d] = commentsCache[d]]_allVars

\* C22's case: a document was restarted while the other document has a job,
\* a stored snapshot and a tick that is dispatching.
C22_Witness ==
  /\ res.route = "start"
  /\ \E d \in Docs :
       /\ res.doc = d
       /\ job[d] = "restarted"
       /\ \E e \in Docs \ {d} :
            /\ activeTimers[e] # 0
            /\ commentsCache[e] = Stored(SnapC)
            /\ \E r \in BagToSet(ticks) : r.doc = e /\ r.pc = "agent" /\ r.current

\* C22's second case: a tick stored a snapshot while the other document holds
\* a different one and has a fetch in flight.
C22_WitnessTick ==
  /\ pollEvent.val = "ok"
  /\ \E d \in Docs :
       /\ pollEvent.doc = d
       /\ commentsCache[d] = Stored(SnapC)
       /\ \E e \in Docs \ {d} :
            /\ commentsCache[e] = Stored(SnapA)
            /\ \E r \in BagToSet(ticks) : r.doc = e /\ r.pc = "fetch"

\* C23: during the lifetime of one job over a remote list that only grows,
\* processNewCommentWithAgent is called at most once for each reply_id.
C23_DispatchedAtMostOnce ==
  \A id \in UpstreamReplyIds : dispatched[id] <= 1

\* The number of invocations of document d whose dispatch loop awaits
\* processNewCommentWithAgent.
AgentsRunning(d) ==
  BagCardinality([r \in {x \in BagToSet(ticks) : x.doc = d /\ x.pc = "agent"} |-> ticks[r]])

\* C24: at most one agent invocation made for a reply runs for a document at
\* any time.
C24_OneAgentPerDocument ==
  \A d \in Docs : AgentsRunning(d) <= 1

\* ------------------------------------- claims about detectNewComments

\* The places <<comment, reply>> of the replies of a comment list.
Positions(comments) ==
  UNION {{<<i, j>> : j \in 1..Len(comments[i].reply_list.replies)} :
           i \in {k \in 1..Len(comments) : comments[k].reply_list.defined}}

ReplyAt(comments, p) == comments[p[1]].reply_list.replies[p[2]]

\* Every reply_id value a comment list holds (0 for a reply without one).
IdsIn(comments) == {ReplyAt(comments, p).reply_id : p \in Positions(comments)}

\* The places of the replies of new that carry an id old does not hold.
NewPositions(old, new) ==
  {p \in Positions(new) :
     ReplyAt(new, p).reply_id # 0 /\ ReplyAt(new, p).reply_id \notin IdsIn(old)}

\* p comes no later than q in the order of the fetched list.
NoLater(p, q) == p[1] < q[1] \/ (p[1] = q[1] /\ p[2] <= q[2])

\* The reply at p alone, with the fields of its parent comment.
EntryAt(new, p) ==
  [comment_id |-> new[p[1]].comment_id,
   reply_list |-> [defined |-> TRUE, replies |-> <<ReplyAt(new, p)>>]]

\* C7: for a cached list with at least one comment, the result is exactly the
\* replies of the fetched list whose id is set and not in the cached list, one
\* entry per reply with its parent's fields, in the order of the fetched list.
C7_DetectsExactlyTheNewReplies ==
  (diffDone /\ Len(cachedIn) > 0) =>
    LET new == NewPositions(cachedIn, currentIn) IN
      /\ Len(diffOut) = Cardinality(new)
      /\ \A p \in new :
           diffOut[Cardinality({q \in new : NoLater(q, p)})] = EntryAt(currentIn, p)

\* C7's case: the fetched list is the cached list plus one reply with a fresh
\* id, and the result is that reply alone.
C7_Witness ==
  /\ diffDone
  /\ cachedIn = <<Comment(1, <<Reply(1, "a")>>)>>
  /\ currentIn = <<Comment(1, <<Reply(1, "a"), Reply(2, "a")>>)>>
  /\ diffOut = <<Comment(1, <<Reply(2, "a")>>)>>

\* C8: no reply of the result carries an id the cached list holds, and the
\* result is empty when the fetched list is the cached list.
C8_DedupByIdentifier ==
  diffDone =>
    /\ \A k \in 1..Len(diffOut) :
         diffOut[k].reply_list.replies[1].reply_id \notin IdsIn(cachedIn)
    /\ (currentIn = cachedIn => diffOut = <<>>)

\* C8's case: a cached reply id comes back with another text under another
\* comment, beside a reply with a fresh id, and only the fresh one is reported.
C8_Witness ==
  /\ diffDone
  /\ cachedIn = <<Comment(1, <<Reply(1, "a")>>)>>
  /\ currentIn = <<Comment(1, <<>>), Comment(2, <<Reply(1, "b"), Reply(2, "b")>>)>>
  /\ diffOut = <<Comment(2, <<Reply(2, "b")>>)>>


\* ------------------------------ claims about the translator and the sinks

\* The frames the loop body of execute writes for the chunks cs, in order.
RECURSIVE SseFrames(_)
SseFrames(cs) ==
  IF cs = <<>> THEN <<>> ELSE TranslateChunk("sse", Head(cs)).out \o SseFrames(Tail(cs))

\* C14: when the agent stream yields a finite chunk sequence and ends without
\* failing, the closed response holds the frames of the chunks' events in
\* arrival order and then one [DONE] frame as its last frame, and res.end()
\* was called once.
C14_StreamEndsWithDone ==
  (sink = "sse" /\ streamFails = "no" /\ sinkPc = "closed") =>
    /\ written = SseFrames(chunks) \o <<DoneFrame>>
    /\ endCalls = 1

\* The agent stream or the translation of one of its chunks fails.
StreamOrTranslationFails ==
  \/ streamFails # "no"
  \/ \E i \in 1..Len(chunks) : TranslateChunk("sse", chunks[i]).threw

\* C15: a closed streaming response was ended once and never changes again;
\* if the agent stream or the translation failed, its last frame is the one
\* error frame and it holds no [DONE] frame; and a response that was opened
\* is eventually closed.
C15_FailureClosesOnce ==
  /\ []((sink = "sse" /\ sinkPc = "closed") =>
          /\ endCalls = 1
          /\ StreamOrTranslationFails =>
               /\ written # <<>>
               /\ written[Len(written)] = ErrorFrame
               /\ \A i \in 1..(Len(written) - 1) :
                    written[i].type \notin {"error", "[DONE]"})
  /\ [][endCalls >= 1 => (written' = written /\ endCalls' = endCalls)]_allVars
  /\ ((sink = "sse" /\ sinkPc = "opening") ~> (sinkPc = "closed"))

\* C15's case: the stream rejected after a chunk whose frame was written, and
\* the response was closed after the error frame.
C15_Witness ==
  /\ sink = "sse"
  /\ sinkPc = "closed"
  /\ streamFails = "after"
  /\ Len(written) = 2
  /\ written[1].type = "agent"
  /\ written[2] = ErrorFrame
  /\ endCalls = 1

\* The tool calls of the chunk that have a function field carry arguments that
\* parse.
ArgumentsParse(chunk) ==
  \A i \in 1..Len(chunk.agent.tool_calls.calls) :
    chunk.agent.tool_calls.calls[i].function =>
      JSONparse(chunk.agent.tool_calls.calls[i].arguments).ok

\* C16: translation is total: the loop body raises no error for any chunk
\* shape (the chunks with unparsable tool arguments, the matter of C17, set
\* aside), and the loop goes on to the chunks that follow.
C16_TranslationIsTotal ==
  [][(sinkPc = "reading" /\ chunkIndex < Len(chunks)
        /\ ArgumentsParse(chunks[chunkIndex + 1])) =>
       /\ sinkPc' = "reading"
       /\ chunkIndex' = chunkIndex + 1
       /\ \A k \in 1..Len(written') : written'[k].type # "error"]_allVars

\* The chunk is well formed and requests tool invocations, one of which has
\* arguments that do not parse.
HasRawArguments(chunk) ==
  /\ chunk.agent.present
  /\ chunk.agent.messages = "list"
  /\ chunk.agent.tool_calls.defined
  /\ \A i \in 1..Len(chunk.agent.tool_calls.calls) : chunk.agent.tool_calls.calls[i].function
  /\ \E i \in 1..Len(chunk.agent.tool_calls.calls) :
       ~JSONparse(chunk.agent.tool_calls.calls[i].arguments).ok

\* C17: for a chunk with a tool invocation whose arguments do not parse, the
\* translator emits a tool-call event with the raw argument string for that
\* invocation and an event for each remaining invocation, and the loop goes
\* on to the next chunk.
C17_RawArgumentsOnParseFailure ==
  [][(sinkPc = "reading" /\ chunkIndex < Len(chunks)
        /\ HasRawArguments(chunks[chunkIndex + 1])) =>
       LET calls == chunks[chunkIndex + 1].agent.tool_calls.calls
           new == SubSeq(written', Len(written) + 1, Len(written'))
       IN /\ sinkPc' = "reading"
          /\ chunkIndex' = chunkIndex + 1
          /\ Len(new) = Len(calls)
          /\ \A i \in 1..Len(calls) :
               /\ new[i].type = "tool_call"
               /\ new[i].tool = calls[i].name
               /\ ~JSONparse(calls[i].arguments).ok => new[i].text = calls[i].arguments]_allVars

\* The messages of chunk.tools that carry a tool_call_id.
ToolResults(chunk) ==
  IF chunk.tools.present /\ chunk.tools.isArray
    THEN SelectSeq(chunk.tools.messages, LAMBDA m : m.kwargs)
    ELSE <<>>

\* C18: each tool result yields one tool-result event for the tool named by
\* the first segment of its call id; for a payload that parses, success is
\* TRUE exactly when its code is 0, with or without a data field and for every
\* sink; a payload that does not parse yields a successful result.
C18_SuccessFollowsStatusCode ==
  [][(sinkPc = "reading" /\ chunkIndex < Len(chunks)
        /\ ~chunks[chunkIndex + 1].agent.present
        /\ ~chunks[chunkIndex + 1].end.present) =>
       LET results == ToolResults(chunks[chunkIndex + 1])
           new == SubSeq(written', Len(written) + 1, Len(written'))
       IN /\ Len(new) = Len(results)
          /\ \A i \in 1..Len(results) :
               LET content == JSONparse(results[i].content) IN
                 /\ new[i].type = "tool_response"
                 /\ new[i].tool = FirstSegment(results[i].tool_call_id)
                 /\ content.ok => (new[i].success <=> content.code = 0)
                 /\ ~content.ok => new[i].success]_allVars


\* ------------------------------------------------- claims about shutdown

\* The step is the first, synchronous step of the handler of sig.
SignalStep(sig) ==
  /\ shutdownPc[sig] = "idle"
  /\ cleanupTried[sig] = "none"
  /\ shutdownPc'[sig] = "cleanup" \/ cleanupTried'[sig] = "skipped"

\* C20: the first step of a signal handler clears the timer of every job and
\* empties activeTimers and commentsCache; the process exits only after the
\* exiting handler has attempted the cleanup of the provider and the close of
\* the client it holds, also when the cleanup failed; and the step in which
\* the close settles, with or without a failure, is the exit.
C20_ShutdownAttemptsBoth ==
  /\ [][\A sig \in Signals :
          SignalStep(sig) =>
            /\ \A d \in list : <<d, activeTimers[d]>> \notin liveTimers'
            /\ \A d \in Docs : activeTimers'[d] = 0 /\ ~commentsCache'[d].present]_allVars
  /\ [](exitedBy # "none" =>
          /\ authProvider => cleanupTried[exitedBy] \in {"ok", "failed"}
          /\ mcpClient => closeTried[exitedBy] \in {"ok", "failed"})
  /\ [][\A sig \in Signals :
          (closeTried[sig] = "none" /\ closeTried'[sig] \in {"ok", "failed"}) =>
            exitedBy' = sig]_allVars

\* C20's case: a signal arrived while two jobs ran; the cleanup failed, the
\* close was attempted and failed too, and the process exited.
C20_Witness ==
  /\ exitedBy = "SIGTERM"
  /\ cleanupTried["SIGTERM"] = "failed"
  /\ closeTried["SIGTERM"] = "failed"
  /\ BagCardinality(ticks) = 2
  /\ liveTimers = {}

=============================================================================
